---- MODULE Spec2Model ----
(***************************************************************************)
(* Model of the DBLP synchronisation job: src/main.py (Scaffold.run) and   *)
(* src/utils.py (get_dblp_items, write_venue_yaml, get_msg, request_data). *)
(*                                                                         *)
(* Python strings are sequences of character codes, so that ordering,      *)
(* str.isdigit, int() and ", ".join are computed and not assumed.  Python  *)
(* scalars are tagged values [t, v]: the tag tells a str from an int, as   *)
(* Python's == does.                                                       *)
(***************************************************************************)
EXTENDS Integers, Sequences, FiniteSets, TLC

VARIABLES
    config_files,    \* the parsed _configs/*.yaml: one topic list per target
    remote,          \* what the remote API answers for each topic
    cacheFile,       \* cached/dblp_cache.yaml on disk
    docFile,         \* _data/<target>.yaml on disk, one per target
    envFile,         \* what the current run appended to $GITHUB_ENV
    pc,              \* position of Scaffold.run
    ci, ti,          \* indices of the current config file and topic
    dblp_cache,      \* run's in-memory cache
    aggregated_msg,  \* run's message text
    total_flag,      \* run's had-updates flag
    dblp_data,       \* the payload handed to get_dblp_items
    items,           \* the normalized items of the current topic
    new_items,       \* the items of the current topic that passed the filter
    exc,             \* the exception that ended the run, "" when none
    env,             \* the env argument of the run
    runs,            \* number of runs started
    changes,         \* number of changes of the remote side
    writes,          \* files written by the current run
    replay,          \* this run follows a completed run and sees the same remote side
    prevCache,       \* cacheFile as the previous completed run left it
    prevDocs,        \* docFile as the previous completed run left it
    dirty,           \* the remote side changed since the current run began
    visited,         \* the (config file, topic) pairs the current run has fetched
    merged,          \* per target, the items handed to write_venue_yaml so far
    resumed,         \* this run follows an interrupted run and sees the same remote side
    seen,            \* per target, the venues of those items in the order first handed over
    budget,          \* the retry argument of the outermost request_data call
    retry,           \* the retry argument of the current request_data call
    attempts,        \* requests sent by the request_data call
    delays,          \* sleeps of the request_data call
    failures         \* requests of the request_data call that raised

fetchVars == <<budget, retry, attempts, delays, failures>>

vars == <<config_files, remote, cacheFile, docFile, envFile, pc, ci, ti,
          dblp_cache, aggregated_msg, total_flag, dblp_data, items, new_items,
          exc, env, runs, changes, writes, replay, prevCache, prevDocs, dirty,
          visited, merged, seen, resumed, fetchVars>>

-----------------------------------------------------------------------------
(* Bounds *)
MaxHits == 2        \* hits in one response
MaxRuns == 2        \* runs of the job in one behaviour
MaxChanges == 1     \* changes of the remote side in one behaviour
MaxItems == 2       \* items handed to one merge
MaxExcess == 2      \* characters of a message beyond the clipping limit

-----------------------------------------------------------------------------
(* Strings: sequences of character codes *)
Empty == <<>>
sA == <<65>>                          \* "A"
sB == <<66>>                          \* "B"
sAb == <<65, 98>>                     \* "Ab"
sAlice == <<65, 108>>                 \* "Al"
sBob == <<66, 111>>                   \* "Bo"
sAAAI == <<65, 65, 65, 73>>           \* "AAAI"
sICML == <<73, 67, 77, 76>>           \* "ICML"
s2024 == <<50, 48, 50, 52>>           \* "2024"
s999 == <<57, 57, 57>>                \* "999"
sNd == <<110, 100>>                   \* "nd"
sE1 == <<101, 49>>                    \* "e1"
sE2 == <<101, 50>>                    \* "e2"
sU1 == <<117, 49>>                    \* "u1"
sT1 == <<115, 58, 97, 58>>            \* "s:a:"
sT2 == <<115, 58, 98, 58>>            \* "s:b:"
CommaSpace == <<44, 32>>              \* ", "

\* Python's str < str: lexicographic by code point
RECURSIVE StrLess(_, _)
StrLess(a, b) ==
    IF b = <<>> THEN FALSE
    ELSE IF a = <<>> THEN TRUE
    ELSE IF Head(a) # Head(b) THEN Head(a) < Head(b)
    ELSE StrLess(Tail(a), Tail(b))

StrLeq(a, b) == a = b \/ StrLess(a, b)

\* str.isdigit()
IsDigit(s) == s # <<>> /\ \A i \in 1..Len(s) : s[i] \in 48..57

\* int(s) for a digit string
RECURSIVE ToInt(_)
ToInt(s) == IF s = <<>> THEN 0 ELSE 10 * ToInt(SubSeq(s, 1, Len(s) - 1)) + (s[Len(s)] - 48)

\* str(n) for a natural number
RECURSIVE Digits(_)
Digits(n) == IF n < 10 THEN <<48 + n>> ELSE Digits(n \div 10) \o <<48 + (n % 10)>>

\* sep.join(names)
RECURSIVE Join(_, _)
Join(sep, names) ==
    IF names = <<>> THEN <<>>
    ELSE IF Len(names) = 1 THEN names[1]
    ELSE names[1] \o sep \o Join(sep, Tail(names))

-----------------------------------------------------------------------------
(* Python scalars *)
PyStr(s) == [t |-> "str", v |-> s]
PyInt(n) == [t |-> "int", v |-> n]
PyNone == [t |-> "none", v |-> 0]
Absent == [t |-> "absent", v |-> 0]    \* the key is not in the mapping

\* truth value of a scalar
Truthy(x) ==
    CASE x.t = "str" -> x.v # <<>>
      [] x.t = "int" -> x.v # 0
      [] OTHER -> FALSE

-----------------------------------------------------------------------------
(* Item Normalizer: utils.py get_item_info, get_dblp_items *)

NeededKeys == <<"title", "venue", "year", "type", "access", "key", "doi", "ee", "url">>

\* item[key], "" on KeyError
get_item_info(item, key) == IF item[key].t = "absent" THEN PyStr(Empty) ELSE item[key]

\* Outcome of lines 80-89 for one hit's authors value.  The value is the
\* authors mapping of the hit, or absent.  A mapping may lack the "author"
\* key; "author" is a list of records or a single record; a record has a
\* "text" key or not, and other keys ("@pid") or not.
\*   o = "ok": names found, "skip": the hit is dropped (continue),
\*   o = "KeyError": line 82 raises an exception that "except TypeError"
\*   does not catch.
AuthorOutcome(authors) ==
    IF authors.t = "absent"
    THEN \* ""["author"] raises TypeError; "author" not in "" -> continue
         [o |-> "skip", names |-> <<>>]
    ELSE IF ~authors.hasAuthor
    THEN \* authors["author"] raises KeyError
         [o |-> "KeyError", names |-> <<>>]
    ELSE IF authors.isList
    THEN IF \E i \in 1..Len(authors.recs) : ~authors.recs[i].hasText
         THEN [o |-> "KeyError", names |-> <<>>]
         ELSE [o |-> "ok", names |-> [i \in 1..Len(authors.recs) |-> authors.recs[i].text]]
    ELSE LET r == authors.recs[1] IN
         IF ~r.hasText /\ ~r.hasOther
         THEN \* iterating a record without keys yields nothing and raises nothing
              [o |-> "ok", names |-> <<>>]
         ELSE \* a key is a str: key["text"] raises TypeError, lines 84-89
              IF ~r.hasText
              THEN [o |-> "skip", names |-> <<>>]
              ELSE [o |-> "ok", names |-> <<r.text>>]

\* lines 93-107: the canonical item of a hit whose author names are known
ResItem(info, names) ==
    [k \in {"author"} \cup {NeededKeys[i] : i \in 1..Len(NeededKeys)} |->
        IF k = "author" THEN PyStr(Join(CommaSpace, names))
        ELSE LET key_temp == get_item_info(info, k)
             IN IF Truthy(key_temp) THEN key_temp ELSE PyStr(Empty)]

\* lines 77-109: the loop over the hits; the first exception ends it
RECURSIVE NormalizeHits(_)
NormalizeHits(hits) ==
    IF hits = <<>> THEN [exc |-> "", items |-> <<>>]
    ELSE LET item == Head(hits) IN
         IF ~item.hasInfo THEN [exc |-> "KeyError", items |-> <<>>]
         ELSE LET a == AuthorOutcome(item.authors) IN
              IF a.o = "KeyError" THEN [exc |-> "KeyError", items |-> <<>>]
              ELSE LET rest == NormalizeHits(Tail(hits)) IN
                   IF rest.exc # "" THEN rest
                   ELSE IF a.o = "skip" THEN rest
                   ELSE [exc |-> "", items |-> <<ResItem(item.info, a.names)>> \o rest.items]

\* lines 69-72: dblp_data["result"]["hits"]["hit"], [] on KeyError.  A value
\* that is not a mapping raises TypeError when subscripted with a key.
HitsLookup(data) ==
    IF data.t # "dict" THEN [exc |-> "TypeError", hit |-> [t |-> "list", l |-> <<>>]]
    ELSE IF data.result.t = "absent" THEN [exc |-> "", hit |-> [t |-> "list", l |-> <<>>]]
    ELSE IF data.result.t # "dict" THEN [exc |-> "TypeError", hit |-> [t |-> "list", l |-> <<>>]]
    ELSE IF data.result.hits.t = "absent" THEN [exc |-> "", hit |-> [t |-> "list", l |-> <<>>]]
    ELSE IF data.result.hits.t # "dict" THEN [exc |-> "TypeError", hit |-> [t |-> "list", l |-> <<>>]]
    ELSE IF data.result.hits.hit.t = "absent" THEN [exc |-> "", hit |-> [t |-> "list", l |-> <<>>]]
    ELSE [exc |-> "", hit |-> data.result.hits.hit]

get_dblp_items(data) ==
    LET look == HitsLookup(data) IN
    IF look.exc # "" THEN [exc |-> look.exc, items |-> <<>>]
    ELSE IF look.hit.t = "list" THEN NormalizeHits(look.hit.l)
    ELSE \* a single hit record, a number or null where the list should be:
         \* iterating it, or subscripting what the iteration yields, raises
         [exc |-> "TypeError", items |-> <<>>]

-----------------------------------------------------------------------------
(* Payloads *)
HitSlot(t, l) == [t |-> t, l |-> l]
Level(t, hitT, l) == [t |-> t, hit |-> HitSlot(hitT, l)]

\* a payload: the top-level value, "result", "hits" and "hit" each with the
\* kind of value found there
Payload(top, res, hts, hitT, l) ==
    [t |-> top, result |-> [t |-> res, hits |-> Level(hts, hitT, l)]]

WellFormed(l) == Payload("dict", "dict", "dict", "list", l)

\* response.json() returned null, or request_data gave up: dblp_data is None
NoneData == Payload("none", "absent", "absent", "absent", <<>>)

\* payloads where the result/hits/hit nesting is missing or has the wrong kind
MalformedPayloads ==
    { Payload("list", "absent", "absent", "absent", <<>>),
      Payload("dict", "absent", "absent", "absent", <<>>),
      Payload("dict", "none", "absent", "absent", <<>>),
      Payload("dict", "list", "absent", "absent", <<>>),
      Payload("dict", "dict", "absent", "absent", <<>>),
      Payload("dict", "dict", "str", "absent", <<>>),
      Payload("dict", "dict", "dict", "absent", <<>>),
      Payload("dict", "dict", "dict", "none", <<>>),
      Payload("dict", "dict", "dict", "dict", <<>>) }

AuthorRec(hasText, text, hasOther) == [hasText |-> hasText, text |-> text, hasOther |-> hasOther]
Authors(t, hasAuthor, isList, recs) ==
    [t |-> t, hasAuthor |-> hasAuthor, isList |-> isList, recs |-> recs]

NoAuthorsKey == Authors("absent", FALSE, FALSE, <<>>)
NoAuthorEntry == Authors("dict", FALSE, FALSE, <<>>)
AuthorList(recs) == Authors("dict", TRUE, TRUE, recs)
SingleAuthor(rec) == Authors("dict", TRUE, FALSE, <<rec>>)

AuthorShapes ==
    { NoAuthorsKey, NoAuthorEntry,
      AuthorList(<<AuthorRec(TRUE, sAlice, TRUE), AuthorRec(TRUE, sBob, TRUE)>>),
      AuthorList(<<AuthorRec(TRUE, sAlice, TRUE)>>),
      AuthorList(<<AuthorRec(TRUE, sAlice, TRUE), AuthorRec(FALSE, Empty, TRUE)>>),
      SingleAuthor(AuthorRec(TRUE, sAlice, TRUE)),
      SingleAuthor(AuthorRec(TRUE, sAlice, FALSE)),
      SingleAuthor(AuthorRec(FALSE, Empty, TRUE)),
      SingleAuthor(AuthorRec(FALSE, Empty, FALSE)) }

Info(title, venue, year, ee, url) ==
    [title |-> title, venue |-> venue, year |-> year, type |-> Absent,
     access |-> PyNone, key |-> Absent, doi |-> Absent, ee |-> ee, url |-> url]

Hit(authors, info) == [hasInfo |-> TRUE, authors |-> authors, info |-> info]
NoInfoHit == [hasInfo |-> FALSE, authors |-> NoAuthorsKey,
              info |-> Info(Absent, Absent, Absent, Absent, Absent)]

\* sequences over S of length at most n
SeqsUpTo(S, n) == UNION { [1..k -> S] : k \in 0..n }

\* the hits given to the normalizer on its own: every author shape, one info,
\* and a hit without info
NormHits ==
    { Hit(a, Info(PyStr(sA), PyStr(sAAAI), PyStr(s2024), Absent, PyStr(sU1))) : a \in AuthorShapes }
    \cup {NoInfoHit}

NormPayloads == MalformedPayloads \cup { WellFormed(l) : l \in SeqsUpTo(NormHits, MaxHits) }

-----------------------------------------------------------------------------
(* YAML: yaml.safe_dump / yaml.safe_load on scalars.  A scalar in a file is  *)
(* its text and its style; a plain scalar is typed by its text when loaded. *)
sNull == <<110, 117, 108, 108>>       \* "null"

\* the type the loader gives a plain scalar
ImplicitTag(text) ==
    IF IsDigit(text) THEN "int"
    ELSE IF text = <<>> \/ text = sNull THEN "none"
    ELSE "str"

\* safe_dump that never quotes
YamlRepresent_plain(x) ==
    CASE x.t = "str" -> [q |-> FALSE, text |-> x.v]
      [] x.t = "int" -> [q |-> FALSE, text |-> Digits(x.v)]
      [] OTHER -> [q |-> FALSE, text |-> sNull]

\* safe_dump: a str is quoted when its plain form would not load as a str
YamlRepresent(x) ==
    CASE x.t = "str" -> [q |-> ImplicitTag(x.v) # "str", text |-> x.v]
      [] x.t = "int" -> [q |-> FALSE, text |-> Digits(x.v)]
      [] OTHER -> [q |-> FALSE, text |-> sNull]

\* safe_load
YamlConstruct(sc) ==
    IF sc.q THEN PyStr(sc.text)
    ELSE CASE ImplicitTag(sc.text) = "int" -> PyInt(ToInt(sc.text))
           [] ImplicitTag(sc.text) = "none" -> PyNone
           [] OTHER -> PyStr(sc.text)

MapRec(r, Op(_)) == [k \in DOMAIN r |-> Op(r[k])]
MapSeq(q, Op(_)) == [i \in 1..Len(q) |-> Op(q[i])]

\* the cache mapping: topic -> items, in insertion order
DumpItem(item) == MapRec(item, YamlRepresent)
LoadItem(item) == MapRec(item, YamlConstruct)
DumpCacheEntry(e) == [key |-> YamlRepresent(e.key), val |-> MapSeq(e.val, DumpItem)]
LoadCacheEntry(e) == [key |-> YamlConstruct(e.key), val |-> MapSeq(e.val, LoadItem)]

\* the Venue Document
DumpBucket(b) ==
    [key |-> YamlRepresent(b.key), header |-> MapRec(b.header, YamlRepresent),
     length |-> MapRec(b.length, YamlRepresent), body |-> MapSeq(b.body, DumpItem)]
LoadBucket(b) ==
    [key |-> YamlConstruct(b.key), header |-> MapRec(b.header, YamlConstruct),
     length |-> MapRec(b.length, YamlConstruct), body |-> MapSeq(b.body, LoadItem)]
DumpVenue(v) == [key |-> YamlRepresent(v.key), years |-> MapSeq(v.years, DumpBucket)]
LoadVenue(v) == [key |-> YamlConstruct(v.key), years |-> MapSeq(v.years, LoadBucket)]
DumpDoc(d) == [section |-> MapSeq(d.section, DumpItem), venues |-> MapSeq(d.venues, DumpVenue)]
LoadDoc(d) == [section |-> MapSeq(d.section, LoadItem), venues |-> MapSeq(d.venues, LoadVenue)]

\* files
NoData == [section |-> <<>>, venues |-> <<>>]
AbsentFile == [exists |-> FALSE, empty |-> FALSE, data |-> NoData]    \* no such file
EmptyFile == [exists |-> TRUE, empty |-> TRUE, data |-> NoData]       \* a file holding no document
DocFileOf(d) == [exists |-> TRUE, empty |-> FALSE, data |-> DumpDoc(d)]

AbsentCache == [exists |-> FALSE, empty |-> FALSE, map |-> <<>>]
EmptyCache == [exists |-> TRUE, empty |-> TRUE, map |-> <<>>]
CacheFileOf(m) == [exists |-> TRUE, empty |-> FALSE, map |-> MapSeq(m, DumpCacheEntry)]

-----------------------------------------------------------------------------
(* Venue Aggregator: utils.py write_venue_yaml *)
sTitle == <<84, 105, 116, 108, 101>>                  \* "Title"
sVenue == <<32, 86, 101, 110, 117, 101>>              \* " Venue"
sYear == <<32, 89, 101, 97, 114, 32>>                 \* " Year "
sLink == <<76, 105, 110, 107>>                        \* "Link"
sSection == <<115, 101, 99, 116, 105, 111, 110>>      \* "section"
sUnknownVenue == <<85, 110, 107, 110, 111, 119, 110, 32, 86, 101, 110, 117, 101>>
sUnknownYear == <<85, 110, 107, 110, 111, 119, 110, 32, 89, 101, 97, 114>>
sNone == <<78, 111, 110, 101>>                        \* "None"

DEFAULT_HEADER ==
    [title |-> PyStr(sTitle), venue |-> PyStr(sVenue), year |-> PyStr(sYear), link |-> PyStr(sLink)]

DEFAULT_LENGTH ==
    [title |-> PyInt(60), venue |-> PyInt(53), year |-> PyInt(4), link |-> PyInt(60)]

\* item.get(key, default)
ItemGet(item, key, default) == IF key \in DOMAIN item THEN item[key] ELSE default

\* str(x)
StrOf(x) ==
    CASE x.t = "str" -> x
      [] x.t = "int" -> PyStr(Digits(x.v))
      [] OTHER -> PyStr(sNone)

\* x < y for two values of the same type
PyLess(x, y) ==
    IF x.t = "str" /\ y.t = "str" THEN StrLess(x.v, y.v)
    ELSE IF x.t = "int" /\ y.t = "int" THEN x.v < y.v
    ELSE FALSE

\* comparing a str with an int raises TypeError
Comparable(keys) ==
    \A i, j \in 1..Len(keys) : i # j => keys[i].t = keys[j].t /\ keys[i].t \in {"str", "int"}

\* body.sort(key=title): stable, ascending
RECURSIVE InsertAsc(_, _)
InsertAsc(sorted, x) ==
    IF sorted = <<>> THEN <<x>>
    ELSE IF PyLess(x.title, Head(sorted).title) THEN <<x>> \o sorted
    ELSE <<Head(sorted)>> \o InsertAsc(Tail(sorted), x)

\* the body left in insertion order
SortBody_none(body) == body

RECURSIVE SortBody(_)
SortBody(body) ==
    IF body = <<>> THEN <<>>
    ELSE InsertAsc(SortBody(SubSeq(body, 1, Len(body) - 1)), body[Len(body)])

\* sorted(years, key=year key, reverse=True): stable, descending
RECURSIVE InsertDesc(_, _)
InsertDesc(sorted, x) ==
    IF sorted = <<>> THEN <<x>>
    ELSE IF PyLess(Head(sorted).key, x.key) THEN <<x>> \o sorted
    ELSE <<Head(sorted)>> \o InsertDesc(Tail(sorted), x)

\* the years left in insertion order
SortYears_none(years) == years

RECURSIVE SortYears(_)
SortYears(years) ==
    IF years = <<>> THEN <<>>
    ELSE InsertDesc(SortYears(SubSeq(years, 1, Len(years) - 1)), years[Len(years)])

\* position of the entry with this key, 0 when there is none
IndexOfKey(entries, key) ==
    IF \E i \in 1..Len(entries) : entries[i].key = key
    THEN CHOOSE i \in 1..Len(entries) :
            entries[i].key = key /\ \A j \in 1..(i - 1) : entries[j].key # key
    ELSE 0

\* lines 193-198: the document as loaded
LoadData(file) ==
    IF ~file.exists THEN [hasSection |-> TRUE, section |-> <<>>, venues |-> <<>>]
    ELSE IF file.empty THEN [hasSection |-> FALSE, section |-> <<>>, venues |-> <<>>]
    ELSE [hasSection |-> TRUE, section |-> LoadDoc(file.data).section,
          venues |-> LoadDoc(file.data).venues]

\* the entry appended without looking at the titles already there
BodyWith_noDedup(body, item, venue, year, link) ==
    SortBody(Append(body,
        [title |-> item.title, venue |-> venue,
         year |-> IF IsDigit(year.v) THEN PyInt(ToInt(year.v)) ELSE year,
         link |-> link]))

\* lines 219-229: the body of a year-bucket after the item
BodyWith(body, item, venue, year, link) ==
    IF \E i \in 1..Len(body) : body[i].title = item.title
    THEN body
    ELSE SortBody(Append(body,
            [title |-> item.title, venue |-> venue,
             year |-> IF IsDigit(year.v) THEN PyInt(ToInt(year.v)) ELSE year,
             link |-> link]))

\* the url, whatever ee is
LinkOf_url(item) == ItemGet(item, "url", PyNone)

\* line 202: item.get("ee") or item.get("url")
LinkOf(item) ==
    IF Truthy(ItemGet(item, "ee", PyNone)) THEN item.ee ELSE ItemGet(item, "url", PyNone)

\* the venue put in front of the section
SectionWith_front(section, venue) ==
    IF \E i \in 1..Len(section) : section[i].title = venue
    THEN section
    ELSE <<[title |-> venue]>> \o section

\* lines 205-206: the section after the venue
SectionWith(section, venue) ==
    IF \E i \in 1..Len(section) : section[i].title = venue
    THEN section
    ELSE Append(section, [title |-> venue])

\* lines 201-229: one iteration of the loop over the items
MergeItem(data, item) ==
    LET venue == ItemGet(item, "venue", PyStr(sUnknownVenue))
        year == StrOf(ItemGet(item, "year", PyStr(sUnknownYear)))
        link == LinkOf(item)
    IN
    IF ~data.hasSection THEN [exc |-> "KeyError", data |-> data]
    ELSE IF venue = PyStr(sSection) THEN [exc |-> "TypeError", data |-> data]
    ELSE
    LET section == SectionWith(data.section, venue)
        venues1 == IF IndexOfKey(data.venues, venue) = 0
                   THEN Append(data.venues, [key |-> venue, years |-> <<>>])
                   ELSE data.venues
        vi == IndexOfKey(venues1, venue)
        years1 == IF IndexOfKey(venues1[vi].years, year) = 0
                  THEN Append(venues1[vi].years,
                          [key |-> year, header |-> DEFAULT_HEADER,
                           length |-> DEFAULT_LENGTH, body |-> <<>>])
                  ELSE venues1[vi].years
        yi == IndexOfKey(years1, year)
        body == years1[yi].body
    IN IF ~Comparable(<<item.title>> \o [i \in 1..Len(body) |-> body[i].title])
       THEN [exc |-> "TypeError", data |-> data]
       ELSE
       [exc |-> "",
        data |-> [hasSection |-> TRUE, section |-> section,
                  venues |-> [venues1 EXCEPT ![vi].years =
                                [years1 EXCEPT ![yi].body = BodyWith(body, item, venue, year, link)]]]]

RECURSIVE MergeItems(_, _)
MergeItems(data, its) ==
    IF its = <<>> THEN [exc |-> "", data |-> data]
    ELSE LET r == MergeItem(data, Head(its)) IN
         IF r.exc # "" THEN r ELSE MergeItems(r.data, Tail(its))

\* lines 231-234: every venue's years, descending
YearsSorted(venues) == [i \in 1..Len(venues) |-> [venues[i] EXCEPT !.years = SortYears(@)]]

\* the whole call: the exception raised, if any, and the file afterwards
write_venue_yaml(its, file) ==
    LET r == MergeItems(LoadData(file), its) IN
    IF r.exc # "" THEN [exc |-> r.exc, file |-> file]
    ELSE IF \E i \in 1..Len(r.data.venues) :
               ~Comparable([j \in 1..Len(r.data.venues[i].years) |-> r.data.venues[i].years[j].key])
    THEN [exc |-> "TypeError", file |-> file]
    ELSE IF ~r.data.hasSection THEN [exc |-> "", file |-> EmptyFile]
    ELSE [exc |-> "",
          file |-> DocFileOf([section |-> r.data.section, venues |-> YearsSorted(r.data.venues)])]

-----------------------------------------------------------------------------
(* Run Orchestrator: main.py Scaffold.run *)
Topics == {sT1, sT2}

\* the parsed configuration: no config file, two targets without topics, one
\* target with two topics, two targets that share a topic
Layouts ==
    { <<>>,
      << <<>>, <<>> >>,
      << <<sT1, sT2>> >>,
      << <<sT1>>, <<sT1, sT2>> >> }

hA == Hit(AuthorList(<<AuthorRec(TRUE, sAlice, TRUE), AuthorRec(TRUE, sBob, TRUE)>>),
          Info(PyStr(sA), PyStr(sAAAI), PyStr(s2024), PyStr(sE1), PyStr(sU1)))
hB == Hit(SingleAuthor(AuthorRec(TRUE, sAlice, TRUE)),
          Info(PyStr(sB), Absent, Absent, Absent, PyStr(sU1)))

\* what a fetch can return: None, a payload without the nesting, hits
\* (none, one, two, and the same hit twice)
RunResponses ==
    { NoneData, Payload("dict", "none", "absent", "absent", <<>>),
      WellFormed(<<>>), WellFormed(<<hA>>), WellFormed(<<hB>>),
      WellFormed(<<hB, hA>>), WellFormed(<<hA, hA>>) }

\* the next (config file, topic) at or after (c, t); c past the end when none
RECURSIVE NextPos(_, _, _)
NextPos(cfgs, c, t) ==
    IF c > Len(cfgs) THEN [c |-> c, t |-> 1]
    ELSE IF t <= Len(cfgs[c]) THEN [c |-> c, t |-> t]
    ELSE NextPos(cfgs, c + 1, 1)

\* the items cached under any topic
CacheGet_anyTopic(cache, topic) ==
    LET RECURSIVE All(_)
        All(m) == IF m = <<>> THEN <<>> ELSE Head(m).val \o All(Tail(m))
    IN All(cache.map)

\* dblp_cache.get(topic_query, [])
CacheGet(cache, topic) ==
    IF IndexOfKey(cache.map, PyStr(topic)) = 0 THEN <<>>
    ELSE cache.map[IndexOfKey(cache.map, PyStr(topic))].val

\* line 61: [item for item in items if item not in cached_items]
RECURSIVE FilterNew(_, _)
FilterNew(its, cached_items) ==
    IF its = <<>> THEN <<>>
    ELSE IF \E i \in 1..Len(cached_items) : cached_items[i] = Head(its)
         THEN FilterNew(Tail(its), cached_items)
         ELSE <<Head(its)>> \o FilterNew(Tail(its), cached_items)

\* the topic's entry replaced by the new items
CacheExtend_replace(cache, topic, its) ==
    LET map1 == IF IndexOfKey(cache.map, PyStr(topic)) = 0
                THEN Append(cache.map, [key |-> PyStr(topic), val |-> <<>>])
                ELSE cache.map
        k == IndexOfKey(map1, PyStr(topic))
    IN [none |-> FALSE, map |-> [map1 EXCEPT ![k].val = its]]

\* lines 68-70: the cache after the new items of the topic are recorded
CacheExtend(cache, topic, its) ==
    LET map1 == IF IndexOfKey(cache.map, PyStr(topic)) = 0
                THEN Append(cache.map, [key |-> PyStr(topic), val |-> <<>>])
                ELSE cache.map
        k == IndexOfKey(map1, PyStr(topic))
    IN [none |-> FALSE, map |-> [map1 EXCEPT ![k].val = @ \o its]]

\* line 31: the cache as loaded
LoadCache(file) ==
    IF ~file.exists THEN [none |-> FALSE, map |-> <<>>]
    ELSE IF file.empty THEN [none |-> TRUE, map |-> <<>>]
    ELSE [none |-> FALSE, map |-> MapSeq(file.map, LoadCacheEntry)]

\* the cache file left as the run found it
SaveCache_asFound(cache) == prevCache

\* line 81: the cache file as written
SaveCache(cache) == IF cache.none THEN EmptyCache ELSE CacheFileOf(cache.map)

\* value of a hexadecimal digit, -1 for any other character
HexVal(c) ==
    IF c \in 48..57 THEN c - 48
    ELSE IF c \in 65..70 THEN c - 55
    ELSE IF c \in 97..102 THEN c - 87
    ELSE -1

\* urllib.parse.unquote on ASCII escapes: %XX becomes the character XX
RECURSIVE Unquote(_)
Unquote(s) ==
    IF s = <<>> THEN <<>>
    ELSE IF /\ Head(s) = 37 /\ Len(s) >= 3
            /\ HexVal(s[2]) >= 0 /\ HexVal(s[3]) >= 0
         THEN <<16 * HexVal(s[2]) + HexVal(s[3])>> \o Unquote(SubSeq(s, 4, Len(s)))
         ELSE <<Head(s)>> \o Unquote(Tail(s))

\* s.split(sep) for a one-character separator
RECURSIVE Split(_, _)
Split(s, sep) ==
    IF \A i \in 1..Len(s) : s[i] # sep THEN <<s>>
    ELSE LET k == CHOOSE i \in 1..Len(s) :
                      s[i] = sep /\ \A j \in 1..(i - 1) : s[j] # sep
         IN <<SubSeq(s, 1, k - 1)>> \o Split(SubSeq(s, k + 1, Len(s)), sep)

\* s.replace(c, "") for a one-character c
RECURSIVE Remove(_, _)
Remove(s, c) ==
    IF s = <<>> THEN <<>>
    ELSE IF Head(s) = c THEN Remove(Tail(s), c)
    ELSE <<Head(s)>> \o Remove(Tail(s), c)

sHead == <<35, 35, 32, 91>>                       \* "## ["
sSearch == <<93, 40, 104, 116, 116, 112, 115, 58, 47, 47, 100, 98, 108, 112, 46,
             111, 114, 103, 47, 115, 101, 97, 114, 99, 104, 63, 113, 61>>
                                                  \* "](https://dblp.org/search?q="
sClose == <<41, 92, 110, 92, 110>>                \* ")" backslash n backslash n
sExplore == <<69, 120, 112, 108, 111, 114, 101, 32>>          \* "Explore "
sAbout == <<32, 110, 101, 119, 32, 112, 97, 112, 101, 114, 115, 32, 97, 98, 111,
            117, 116, 32>>                        \* " new papers about "
sStop == <<46, 92, 110, 92, 110>>                 \* "." backslash n backslash n
sEllipsis == <<46, 46, 46>>                       \* "..."
sMsgOpen == <<77, 83, 71, 60, 60, 69, 79, 70, 10>>            \* "MSG<<EOF" newline
sMsgClose == <<10, 69, 79, 70, 10>>               \* newline "EOF" newline

\* line 73: get_msg(new_items, topic_query, aggregated=True); the topics of the
\* configuration are colon triplets, so split(":")[-2] exists
get_msg(its, topic) ==
    LET parts == Split(Unquote(topic), 58)
        name_topic == parts[Len(parts) - 1]
    IN Remove(sHead \o name_topic \o sSearch \o topic \o sClose
              \o sExplore \o Digits(Len(its)) \o sAbout \o name_topic \o sStop, 39)

\* line 89: the message clipped for the CI environment
MsgLimit == 4096
MsgKeep == 4000

OutputMsg_atKeep(msg) ==
    IF Len(msg) > MsgKeep THEN SubSeq(msg, 1, MsgKeep) \o sEllipsis ELSE msg

OutputMsg(msg) ==
    IF Len(msg) > MsgLimit THEN SubSeq(msg, 1, MsgKeep) \o sEllipsis ELSE msg

\* the message published whether or not anything was new
Published_always(file, e, flag, g, msg) ==
    IF e = "prod" /\ g
    THEN Append(file, sMsgOpen \o OutputMsg(msg) \o sMsgClose)
    ELSE file

\* lines 84-90: what the run has appended to $GITHUB_ENV; g tells whether
\* GITHUB_ENV is set
Published(file, e, flag, g, msg) ==
    IF e = "prod" /\ flag /\ g
    THEN Append(file, sMsgOpen \o OutputMsg(msg) \o sMsgClose)
    ELSE file

topic_query == config_files[ci][ti]

\* the venues handed over so far, each once, in the order first handed over
RECURSIVE FirstSeen(_, _)
FirstSeen(sn, its) ==
    IF its = <<>> THEN sn
    ELSE IF \E i \in 1..Len(sn) : sn[i] = Head(its).venue
         THEN FirstSeen(sn, Tail(its))
         ELSE FirstSeen(Append(sn, Head(its).venue), Tail(its))

\* utils.py line 135: retry=10
DefaultRetry == 10

\* line 144 with ">=" in place of ">"
CanRetry_geq(r) == r >= 0

\* line 144: if retry > 0
CanRetry(r) == r > 0

\* no request_data call is in progress
NoFetch ==
    /\ budget = DefaultRetry /\ retry = DefaultRetry
    /\ attempts = 0 /\ delays = 0 /\ failures = 0

Ended == pc \in {"idle", "done", "returned", "crashed"}

\* the topics the configuration lists; the job asks the remote side for no other
Listed(cfgs) ==
    UNION { { cfgs[c][t] : t \in 1..Len(cfgs[c]) } : c \in 1..Len(cfgs) }

Init ==
    /\ config_files \in Layouts
    /\ remote \in [Topics -> RunResponses]
    /\ \A t \in Topics \ Listed(config_files) : remote[t] = NoneData
    /\ cacheFile \in {AbsentCache, EmptyCache}
    /\ docFile \in [1..Len(config_files) -> {AbsentFile, EmptyFile}]
    /\ envFile = <<>>
    /\ pc = "idle"
    /\ ci = 0 /\ ti = 0
    /\ dblp_cache = [none |-> FALSE, map |-> <<>>]
    /\ aggregated_msg = <<>>
    /\ total_flag = FALSE
    /\ dblp_data = NoneData
    /\ items = <<>> /\ new_items = <<>>
    /\ exc = ""
    /\ env = "dev"
    /\ runs = 0 /\ changes = 0
    /\ writes = {}
    /\ replay = FALSE /\ dirty = FALSE /\ resumed = FALSE
    /\ prevCache = cacheFile /\ prevDocs = docFile
    /\ visited = {} /\ merged = [i \in 1..Len(config_files) |-> {}]
    /\ seen = [i \in 1..Len(config_files) |-> <<>>]
    /\ NoFetch

\* the loop moves to the topic after (ci, ti), or leaves the loops
Advance ==
    LET p == NextPos(config_files, ci, ti + 1) IN
    /\ ci' = p.c /\ ti' = p.t
    /\ pc' = IF p.c > Len(config_files) THEN "persist" ELSE "loop"

\* lines 19-34
StartRun ==
    /\ Ended /\ runs < MaxRuns
    /\ runs' = runs + 1
    /\ writes' = {} /\ exc' = "" /\ envFile' = <<>> /\ visited' = {}
    /\ env' \in {"dev", "prod"}
    /\ replay' = (pc = "done" /\ ~dirty) /\ dirty' = FALSE
    /\ resumed' = (pc = "crashed" /\ exc = "Interrupted" /\ ~dirty)
    /\ prevCache' = cacheFile /\ prevDocs' = docFile
    /\ IF config_files = <<>>
       THEN /\ pc' = "returned"
            /\ UNCHANGED <<ci, ti, dblp_cache, aggregated_msg, total_flag>>
       ELSE /\ dblp_cache' = LoadCache(cacheFile)
            /\ aggregated_msg' = <<>> /\ total_flag' = FALSE
            /\ LET p == NextPos(config_files, 1, 1) IN
               /\ ci' = p.c /\ ti' = p.t
               /\ pc' = IF p.c > Len(config_files) THEN "persist" ELSE "loop"
    /\ dblp_data' = NoneData /\ items' = <<>> /\ new_items' = <<>>
    /\ UNCHANGED <<config_files, remote, cacheFile, docFile, changes, merged>>
    /\ UNCHANGED <<seen, fetchVars>>

\* the fetch gave no data and the loops are left (break instead of continue)
FetchFailed_break ==
    /\ pc = "loop" /\ remote[topic_query] = NoneData
    /\ dblp_data' = NoneData
    /\ visited' = visited \cup {<<ci, ti>>}
    /\ ci' = Len(config_files) + 1 /\ ti' = 1 /\ pc' = "persist"
    /\ UNCHANGED <<config_files, remote, cacheFile, docFile, envFile, dblp_cache,
                   aggregated_msg, total_flag, items, new_items, exc, env, runs,
                   changes, writes, replay, prevCache, prevDocs, dirty, merged>>
    /\ UNCHANGED <<seen, resumed, fetchVars>>

\* lines 53-55: the fetch gave no data
FetchFailed ==
    /\ pc = "loop" /\ remote[topic_query] = NoneData
    /\ dblp_data' = NoneData
    /\ visited' = visited \cup {<<ci, ti>>}
    /\ Advance
    /\ UNCHANGED <<config_files, remote, cacheFile, docFile, envFile, dblp_cache,
                   aggregated_msg, total_flag, items, new_items, exc, env, runs,
                   changes, writes, replay, prevCache, prevDocs, dirty, merged>>
    /\ UNCHANGED <<seen, resumed, fetchVars>>

\* lines 53-61: the fetch gave data; normalize and filter
FetchData ==
    /\ pc = "loop" /\ remote[topic_query] # NoneData
    /\ dblp_data' = remote[topic_query]
    /\ visited' = visited \cup {<<ci, ti>>}
    /\ LET r == get_dblp_items(remote[topic_query]) IN
       IF r.exc # ""
       THEN /\ pc' = "crashed" /\ exc' = r.exc
            /\ UNCHANGED <<items, new_items>>
       ELSE IF dblp_cache.none
       THEN \* None has no attribute get
            /\ pc' = "crashed" /\ exc' = "AttributeError"
            /\ items' = r.items
            /\ UNCHANGED new_items
       ELSE /\ pc' = "filtered" /\ exc' = exc
            /\ items' = r.items
            /\ new_items' = FilterNew(r.items, CacheGet(dblp_cache, topic_query))
    /\ UNCHANGED <<config_files, remote, cacheFile, docFile, envFile, ci, ti,
                   dblp_cache, aggregated_msg, total_flag, env, runs, changes,
                   writes, replay, prevCache, prevDocs, dirty, merged>>
    /\ UNCHANGED <<seen, resumed, fetchVars>>

\* the had-updates flag raised although nothing was new
SkipTopic_flag ==
    /\ pc = "filtered" /\ Len(new_items) = 0
    /\ Advance
    /\ total_flag' = TRUE
    /\ UNCHANGED <<config_files, remote, cacheFile, docFile, envFile, dblp_cache,
                   aggregated_msg, dblp_data, items, new_items, exc,
                   env, runs, changes, writes, replay, prevCache, prevDocs, dirty,
                   visited, merged>>
    /\ UNCHANGED <<seen, resumed, fetchVars>>

\* line 63, len(new_items) == 0
SkipTopic ==
    /\ pc = "filtered" /\ Len(new_items) = 0
    /\ Advance
    /\ UNCHANGED <<config_files, remote, cacheFile, docFile, envFile, dblp_cache,
                   aggregated_msg, total_flag, dblp_data, items, new_items, exc,
                   env, runs, changes, writes, replay, prevCache, prevDocs, dirty,
                   visited, merged>>
    /\ UNCHANGED <<seen, resumed, fetchVars>>

\* lines 63-77
Record ==
    /\ pc = "filtered" /\ Len(new_items) > 0
    /\ total_flag' = TRUE
    /\ dblp_cache' = CacheExtend(dblp_cache, topic_query, new_items)
    /\ aggregated_msg' = aggregated_msg \o get_msg(new_items, topic_query)
    /\ LET w == write_venue_yaml(new_items, docFile[ci]) IN
       IF w.exc # ""
       THEN /\ pc' = "crashed" /\ exc' = w.exc
            /\ UNCHANGED <<docFile, writes, ci, ti, merged, seen>>
       ELSE /\ docFile' = [docFile EXCEPT ![ci] = w.file]
            /\ writes' = writes \cup {<<"doc", ci>>}
            /\ merged' = [merged EXCEPT ![ci] = @ \cup {new_items[i] : i \in 1..Len(new_items)}]
            /\ seen' = [seen EXCEPT ![ci] = FirstSeen(@, new_items)]
            /\ exc' = exc
            /\ Advance
    /\ UNCHANGED <<config_files, remote, cacheFile, envFile, dblp_data, items,
                   new_items, env, runs, changes, replay, prevCache, prevDocs, dirty,
                   visited>>
    /\ UNCHANGED <<resumed, fetchVars>>

\* lines 79-90
Finish ==
    /\ pc = "persist"
    /\ \E g \in BOOLEAN :
        /\ cacheFile' = SaveCache(dblp_cache)
        /\ envFile' = Published(envFile, env, total_flag, g, aggregated_msg)
        /\ writes' = writes \cup {<<"cache", 0>>}
                      \cup (IF envFile' # envFile THEN {<<"env", 0>>} ELSE {})
    /\ pc' = "done"
    /\ UNCHANGED <<config_files, remote, docFile, ci, ti, dblp_cache, aggregated_msg,
                   total_flag, dblp_data, items, new_items, exc, env, runs, changes,
                   replay, prevCache, prevDocs, dirty, visited, merged>>
    /\ UNCHANGED <<seen, resumed, fetchVars>>

\* the process is stopped from outside (a cancelled or timed-out CI job) after
\* a document was rewritten (line 77) and before the cache is saved (line 80);
\* a stop before the first document is rewritten leaves the disk as the run
\* found it.  What the process held in memory is gone.
Interrupt ==
    /\ pc \in {"loop", "persist"}
    /\ writes # {}
    /\ pc' = "crashed" /\ exc' = "Interrupted"
    /\ ci' = 0 /\ ti' = 0
    /\ dblp_cache' = [none |-> FALSE, map |-> <<>>]
    /\ aggregated_msg' = <<>> /\ total_flag' = FALSE
    /\ dblp_data' = NoneData /\ items' = <<>> /\ new_items' = <<>>
    /\ UNCHANGED <<config_files, remote, cacheFile, docFile, envFile, env, runs,
                   changes, writes, replay, prevCache, prevDocs, dirty, visited,
                   merged, seen, resumed, fetchVars>>

\* the remote side answers a topic differently from now on, between two
\* runs; what it answers before the first run is drawn in Init
RemoteChange ==
    /\ Ended /\ runs > 0 /\ runs < MaxRuns /\ changes < MaxChanges
    /\ \E t \in Listed(config_files), r \in RunResponses :
        /\ r # remote[t]
        /\ remote' = [remote EXCEPT ![t] = r]
    /\ changes' = changes + 1
    /\ dirty' = TRUE /\ replay' = FALSE /\ resumed' = FALSE
    /\ UNCHANGED <<config_files, cacheFile, docFile, envFile, pc, ci, ti, dblp_cache,
                   aggregated_msg, total_flag, dblp_data, items, new_items, exc, env,
                   runs, writes, prevCache, prevDocs, visited, merged>>
    /\ UNCHANGED <<seen, fetchVars>>

Next ==
    \/ StartRun \/ FetchFailed \/ FetchData \/ SkipTopic \/ Record \/ Finish
    \/ Interrupt \/ RemoteChange

Spec == Init /\ [][Next]_vars

-----------------------------------------------------------------------------
(* The normalizer on its own: get_dblp_items applied to a bounded set of     *)
(* payloads.                                                                *)
InitNorm ==
    /\ dblp_data \in NormPayloads
    /\ pc = "norm"
    /\ config_files = <<>>
    /\ remote = [t \in Topics |-> NoneData]
    /\ cacheFile = AbsentCache
    /\ docFile = <<AbsentFile>>
    /\ envFile = <<>>
    /\ ci = 0 /\ ti = 0
    /\ dblp_cache = [none |-> FALSE, map |-> <<>>]
    /\ aggregated_msg = <<>>
    /\ total_flag = FALSE
    /\ items = <<>> /\ new_items = <<>>
    /\ exc = ""
    /\ env = "dev"
    /\ runs = 0 /\ changes = 0
    /\ writes = {}
    /\ replay = FALSE /\ dirty = FALSE /\ resumed = FALSE
    /\ prevCache = cacheFile /\ prevDocs = docFile
    /\ visited = {} /\ merged = <<{}>>
    /\ seen = << <<>> >>
    /\ NoFetch

Normalize ==
    /\ pc = "norm"
    /\ items' = get_dblp_items(dblp_data).items
    /\ exc' = get_dblp_items(dblp_data).exc
    /\ pc' = "normalized"
    /\ UNCHANGED <<config_files, remote, cacheFile, docFile, envFile, ci, ti,
                   dblp_cache, aggregated_msg, total_flag, dblp_data, new_items,
                   env, runs, changes, writes, replay, prevCache, prevDocs, dirty,
                   visited, merged>>
    /\ UNCHANGED <<seen, resumed, fetchVars>>

NextNorm == Normalize

SpecNorm == InitNorm /\ [][NextNorm]_vars

-----------------------------------------------------------------------------
(* The aggregator on its own: any sequence of write_venue_yaml calls on one  *)
(* document that starts absent.                                             *)
CanonItem(title, venue, year, ee, url) ==
    ResItem(Info(title, venue, year, ee, url), <<sAlice>>)

\* two items with the same title in one bucket, a second title, a year that
\* sorts above "2024" as a string, a non-numeric year, a second venue, and an
\* item without venue and year
MergeUniverse ==
    { CanonItem(PyStr(sB), PyStr(sAAAI), PyStr(s2024), PyStr(sE1), PyStr(sU1)),
      CanonItem(PyStr(sB), PyStr(sAAAI), PyStr(s2024), PyStr(sE2), PyStr(sU1)),
      CanonItem(PyStr(sA), PyStr(sAAAI), PyStr(s2024), Absent, PyStr(sU1)),
      CanonItem(PyStr(sAb), PyStr(sAAAI), PyStr(s999), Absent, Absent),
      CanonItem(PyStr(sA), PyStr(sICML), PyStr(sNd), PyStr(sE1), Absent),
      CanonItem(PyStr(sA), Absent, Absent, PyStr(sE1), Absent) }

InitMerge ==
    /\ docFile = <<AbsentFile>>
    /\ pc = "merge"
    /\ dblp_data = NoneData
    /\ config_files = <<>>
    /\ remote = [t \in Topics |-> NoneData]
    /\ cacheFile = AbsentCache
    /\ envFile = <<>>
    /\ ci = 1 /\ ti = 0
    /\ dblp_cache = [none |-> FALSE, map |-> <<>>]
    /\ aggregated_msg = <<>>
    /\ total_flag = FALSE
    /\ items = <<>> /\ new_items = <<>>
    /\ exc = ""
    /\ env = "dev"
    /\ runs = 0 /\ changes = 0
    /\ writes = {}
    /\ replay = FALSE /\ dirty = FALSE /\ resumed = FALSE
    /\ prevCache = cacheFile /\ prevDocs = docFile
    /\ visited = {} /\ merged = <<{}>>
    /\ seen = << <<>> >>
    /\ NoFetch

\* write_venue_yaml(its, target 1)
Merge ==
    /\ pc = "merge"
    /\ \E its \in SeqsUpTo(MergeUniverse, MaxItems) :
        LET w == write_venue_yaml(its, docFile[ci]) IN
        /\ exc' = w.exc
        /\ docFile' = [docFile EXCEPT ![ci] = w.file]
        /\ merged' = [merged EXCEPT ![ci] = @ \cup {its[i] : i \in 1..Len(its)}]
        /\ seen' = IF w.exc = "" THEN [seen EXCEPT ![ci] = FirstSeen(@, its)] ELSE seen
        /\ writes' = {<<"doc", ci>>}
    /\ UNCHANGED <<config_files, remote, cacheFile, envFile, pc, ci, ti, dblp_cache,
                   aggregated_msg, total_flag, dblp_data, items, new_items, env, runs,
                   changes, replay, prevCache, prevDocs, dirty, visited>>
    /\ UNCHANGED <<resumed, fetchVars>>

NextMerge == Merge

SpecMerge == InitMerge /\ [][NextMerge]_vars

-----------------------------------------------------------------------------
(* The CI output on its own: lines 83-90 applied to messages whose lengths   *)
(* lie on both sides of the clipping limit.                                 *)

\* a text of n characters; the character at a place depends on the place
TextOf(n, k) == [i \in 1..n |-> 97 + ((i + k) % 26)]

PublishLengths ==
    {0, 1, MsgKeep, MsgKeep + 1} \cup ((MsgLimit - MaxExcess)..(MsgLimit + MaxExcess))

PublishMsgs == { TextOf(n, k) : n \in PublishLengths, k \in 0..MaxExcess }

InitPublish ==
    /\ aggregated_msg \in PublishMsgs
    /\ total_flag \in BOOLEAN
    /\ env \in {"dev", "prod"}
    /\ pc = "output"
    /\ envFile = <<>>
    /\ dblp_data = NoneData
    /\ config_files = <<>>
    /\ remote = [t \in Topics |-> NoneData]
    /\ cacheFile = AbsentCache
    /\ docFile = <<AbsentFile>>
    /\ ci = 0 /\ ti = 0
    /\ dblp_cache = [none |-> FALSE, map |-> <<>>]
    /\ items = <<>> /\ new_items = <<>>
    /\ exc = ""
    /\ runs = 0 /\ changes = 0
    /\ writes = {}
    /\ replay = FALSE /\ dirty = FALSE /\ resumed = FALSE
    /\ prevCache = cacheFile /\ prevDocs = docFile
    /\ visited = {} /\ merged = <<{}>>
    /\ seen = << <<>> >>
    /\ NoFetch

\* lines 83-90
Publish ==
    /\ pc = "output"
    /\ \E g \in BOOLEAN :
        /\ envFile' = Published(envFile, env, total_flag, g, aggregated_msg)
        /\ writes' = IF envFile' # envFile THEN {<<"env", 0>>} ELSE {}
    /\ pc' = "published"
    /\ UNCHANGED <<config_files, remote, cacheFile, docFile, ci, ti, dblp_cache,
                   aggregated_msg, total_flag, dblp_data, items, new_items, exc, env,
                   runs, changes, replay, prevCache, prevDocs, dirty, visited, merged>>
    /\ UNCHANGED <<seen, resumed, fetchVars>>

NextPublish == Publish

SpecPublish == InitPublish /\ [][NextPublish]_vars

-----------------------------------------------------------------------------
(* The fetch on its own: one call of request_data, with any retry budget up  *)
(* to the default and any pattern of failing and answering requests.  The   *)
(* body of an answered request is any JSON value response.json() can give,  *)
(* null included.                                                           *)
InitFetch ==
    /\ budget \in 0..DefaultRetry
    /\ retry = budget
    /\ attempts = 0 /\ delays = 0 /\ failures = 0
    /\ pc = "sleep"
    /\ dblp_data = NoneData
    /\ config_files = <<>>
    /\ remote = [t \in Topics |-> NoneData]
    /\ cacheFile = AbsentCache
    /\ docFile = <<AbsentFile>>
    /\ envFile = <<>>
    /\ ci = 0 /\ ti = 0
    /\ dblp_cache = [none |-> FALSE, map |-> <<>>]
    /\ aggregated_msg = <<>>
    /\ total_flag = FALSE
    /\ items = <<>> /\ new_items = <<>>
    /\ exc = ""
    /\ env = "dev"
    /\ runs = 0 /\ changes = 0
    /\ writes = {}
    /\ replay = FALSE /\ dirty = FALSE /\ resumed = FALSE
    /\ prevCache = cacheFile /\ prevDocs = docFile
    /\ visited = {} /\ merged = <<{}>>
    /\ seen = << <<>> >>

runVars == <<config_files, remote, cacheFile, docFile, envFile, ci, ti, dblp_cache,
             aggregated_msg, total_flag, items, new_items, exc, env, runs, changes,
             writes, replay, prevCache, prevDocs, dirty, visited, merged, seen,
             resumed>>

\* line 137: time.sleep(sleep_time + random.random() * 3)
Sleep ==
    /\ pc = "sleep"
    /\ delays' = delays + 1
    /\ pc' = "request"
    /\ UNCHANGED <<budget, retry, attempts, failures, dblp_data, runVars>>

\* lines 138-149: the request, the status test or the decoding raised
AttemptFailed ==
    /\ pc = "request"
    /\ attempts' = attempts + 1
    /\ failures' = failures + 1
    /\ IF CanRetry(retry)
       THEN /\ retry' = retry - 1
            /\ pc' = "sleep"
            /\ UNCHANGED dblp_data
       ELSE /\ dblp_data' = NoneData
            /\ pc' = "fetched"
            /\ UNCHANGED retry
    /\ UNCHANGED <<budget, delays, runVars>>

\* lines 138-140, 150-151: the request was answered; its decoded body is returned
AttemptAnswered ==
    /\ pc = "request"
    /\ attempts' = attempts + 1
    /\ \E body \in RunResponses : dblp_data' = body
    /\ pc' = "fetched"
    /\ UNCHANGED <<budget, retry, delays, failures, runVars>>

NextFetch == Sleep \/ AttemptFailed \/ AttemptAnswered

SpecFetch == InitFetch /\ [][NextFetch]_vars

\* a sleep ends and a request is answered or raises
FairSpecFetch == SpecFetch /\ WF_vars(NextFetch)

-----------------------------------------------------------------------------
(* Properties *)

\* the year-buckets of a persisted document
BucketsOf(file) ==
    UNION { { file.data.venues[i].years[j] : j \in 1..Len(file.data.venues[i].years) } :
            i \in 1..Len(file.data.venues) }

\* the year-bucket of a persisted document under a venue and a year, as a set
BucketAt(file, venue, year) ==
    UNION { { file.data.venues[i].years[j] :
                j \in { k \in 1..Len(file.data.venues[i].years) :
                          file.data.venues[i].years[k].key = YamlRepresent(year) } } :
            i \in { k \in 1..Len(file.data.venues) :
                      file.data.venues[k].key = YamlRepresent(venue) } }

\* C1: a completed run that follows a completed run and gets the same fetch
\* results leaves every Venue Document and the persisted cache as the earlier
\* run wrote them.
Idempotent ==
    (pc = "done" /\ replay) => (cacheFile = prevCache /\ docFile = prevDocs)

IdempotentWitness ==
    /\ pc = "done" /\ replay /\ runs >= 2
    /\ Len(cacheFile.map) = 2
    /\ \E k \in 1..Len(cacheFile.map) : Len(cacheFile.map[k].val) = 2
    /\ docFile[1].exists /\ Len(docFile[1].data.section) = 2

\* C2: no year-bucket holds two entries with one title, and every item handed
\* to a merge has exactly one entry with its title in the bucket of its venue
\* and year, also when several merged items share the title.
DedupByTitle ==
    \A n \in DOMAIN docFile :
        /\ \A b \in BucketsOf(docFile[n]) :
              \A i, j \in 1..Len(b.body) : i # j => b.body[i].title # b.body[j].title
        /\ \A it \in merged[n] :
              /\ Cardinality(BucketAt(docFile[n], it.venue, it.year)) = 1
              /\ \A b \in BucketAt(docFile[n], it.venue, it.year) :
                    Cardinality({ i \in 1..Len(b.body) :
                                    b.body[i].title = YamlRepresent(it.title) }) = 1

DedupByTitleWitness ==
    /\ pc = "merge"
    /\ \E a, b \in merged[1] :
          /\ a # b /\ a.title = b.title /\ a.venue = b.venue /\ a.year = b.year
          /\ \E bk \in BucketAt(docFile[1], a.venue, a.year) : Len(bk.body) = 2

\* the items recorded in the cache under a topic
CachedUnder(cache, topic) ==
    UNION { { cache.map[k].val[i] : i \in 1..Len(cache.map[k].val) } :
            k \in { n \in 1..Len(cache.map) : cache.map[n].key = PyStr(topic) } }

\* C3: the new items are the fetched items that equal no item cached under
\* the same topic, in their original order; what is cached under another
\* topic excludes nothing.
CacheFiltering ==
    pc = "filtered" =>
        new_items = SelectSeq(items, LAMBDA x : x \notin CachedUnder(dblp_cache, topic_query))

CacheFilteringWitness ==
    /\ pc = "filtered"
    /\ Len(new_items) = 1 /\ Len(items) = 2
    /\ \E t \in Topics : t # topic_query /\ new_items[1] \in CachedUnder(dblp_cache, t)

\* every (config file, topic) pair of the configuration
AllPositions ==
    UNION { { <<c, t>> : t \in 1..Len(config_files[c]) } : c \in 1..Len(config_files) }

\* C4: a fetch without data moves the run on to the next topic (the step of
\* a run that is not stopped from outside), and a run that reaches its end
\* has fetched every topic of every target and has persisted the cache.
FetchFailureIsolated ==
    /\ [][(pc = "loop" /\ remote[topic_query] = NoneData /\ exc' # "Interrupted") =>
            /\ pc' \in {"loop", "persist"}
            /\ [c |-> ci', t |-> ti'] = NextPos(config_files, ci, ti + 1)
            /\ exc' = ""]_vars
    /\ [](pc = "done" =>
            /\ visited = AllPositions
            /\ <<"cache", 0>> \in writes
            /\ cacheFile = SaveCache(dblp_cache))

FetchFailureIsolatedWitness ==
    /\ pc = "done" /\ ~dirty
    /\ config_files = << <<sT1>>, <<sT1, sT2>> >>
    /\ remote[sT1] = NoneData
    /\ <<"doc", 2>> \in writes /\ Len(cacheFile.map) = 1

\* what C5 says of a hit: the author string, or that the hit is dropped
ClaimedAuthor(authors) ==
    IF authors.t = "dict" /\ authors.hasAuthor /\ authors.isList
       /\ \A i \in 1..Len(authors.recs) : authors.recs[i].hasText
    THEN <<PyStr(Join(CommaSpace, [i \in 1..Len(authors.recs) |-> authors.recs[i].text]))>>
    ELSE IF authors.t = "dict" /\ authors.hasAuthor /\ ~authors.isList /\ authors.recs[1].hasText
    THEN <<PyStr(authors.recs[1].text)>>
    ELSE <<>>

\* the hits C5 speaks of
ClaimedShape(h) ==
    /\ h.hasInfo
    /\ (h.authors.hasAuthor /\ h.authors.isList) =>
          \A i \in 1..Len(h.authors.recs) : h.authors.recs[i].hasText

RECURSIVE ClaimedAuthors(_)
ClaimedAuthors(hits) ==
    IF hits = <<>> THEN <<>>
    ELSE ClaimedAuthor(Head(hits).authors) \o ClaimedAuthors(Tail(hits))

\* C5: joined names for a sequence of author records, the name for a single
\* record, and a hit without `author` or without `text` is dropped without
\* an error while its siblings are normalized.
AuthorShapeHandling ==
    (/\ pc = "normalized"
     /\ dblp_data \notin MalformedPayloads
     /\ \A i \in 1..Len(dblp_data.result.hits.hit.l) : ClaimedShape(dblp_data.result.hits.hit.l[i]))
    => /\ exc = ""
       /\ [i \in 1..Len(items) |-> items[i].author] = ClaimedAuthors(dblp_data.result.hits.hit.l)

\* C6: an absent or empty cache file is loaded as the empty mapping, and no
\* run ends with the error of reading an empty cache or an empty document.
MissingFilesAreInitial ==
    /\ (pc \in {"loop", "filtered", "persist"} /\ (~prevCache.exists \/ prevCache.empty)) =>
          (total_flag \/ dblp_cache = [none |-> FALSE, map |-> <<>>])
    /\ (pc = "crashed" => exc \notin {"AttributeError", "KeyError"})

NoTopics == \A c \in 1..Len(config_files) : config_files[c] = <<>>

\* C7 as stated: with no configuration file, or with only empty topic lists,
\* the run writes no file.
NothingWritten ==
    (pc \in {"done", "returned"} /\ NoTopics) => writes = {}

\* C7 amended: with no configuration file the run writes nothing; with only
\* empty topic lists it writes no Venue Document and no notification, and a
\* run that reaches its end has written the cache file only, with the cache
\* as loaded.
NothingToProcess ==
    (pc \in {"done", "returned"} /\ NoTopics) =>
        /\ docFile = prevDocs /\ envFile = <<>>
        /\ IF config_files = <<>>
           THEN pc = "returned" /\ writes = {} /\ cacheFile = prevCache
           ELSE /\ pc = "done" /\ writes = {<<"cache", 0>>}
                /\ cacheFile = SaveCache(LoadCache(prevCache))

NothingToProcessWitness ==
    /\ pc = "done" /\ config_files = << <<>>, <<>> >> /\ env = "prod"
    /\ writes = {<<"cache", 0>>} /\ ~prevCache.exists /\ cacheFile.exists

\* C8: every body is non-decreasing by title.
BodySorted ==
    \A n \in DOMAIN docFile : \A b \in BucketsOf(docFile[n]) :
        \A i, j \in 1..Len(b.body) : i < j => StrLeq(b.body[i].title.text, b.body[j].title.text)

BodySortedWitness ==
    /\ pc = "merge"
    /\ \E b \in BucketsOf(docFile[1]) :
          Len(b.body) = 2 /\ b.body[1].title.text = sA /\ b.body[2].title.text = sB

\* C9: the year keys of every venue are in non-increasing string order.
YearsDescending ==
    \A n \in DOMAIN docFile : \A v \in 1..Len(docFile[n].data.venues) :
        LET years == docFile[n].data.venues[v].years IN
        \A i, j \in 1..Len(years) : i < j => ~StrLess(years[i].key.text, years[j].key.text)

YearsDescendingWitness ==
    /\ pc = "merge"
    /\ \E v, w \in 1..Len(docFile[1].data.venues) :
          /\ Len(docFile[1].data.venues[v].years) = 2
          /\ docFile[1].data.venues[v].years[1].key.text = s999
          /\ docFile[1].data.venues[v].years[2].key.text = s2024
          /\ docFile[1].data.venues[w].years[1].key.text = sNd

\* C10: a payload without the result/hits/hit nesting, or with another kind
\* of value in its place, is normalized to no item and raises nothing.
MalformedYieldsEmpty ==
    (pc = "normalized" /\ dblp_data \in MalformedPayloads) => (exc = "" /\ items = <<>>)

\* C11: the message is published only by a prod run in which a topic had new
\* items; what is published is the whole message when it has at most 4096
\* characters and its first 4000 characters followed by "..." otherwise
PublishedClipped ==
    pc = "published" =>
        /\ Len(envFile) <= 1
        /\ envFile # <<>> => env = "prod" /\ total_flag
        /\ envFile # <<>> =>
              LET L == Len(aggregated_msg)
                  text == SubSeq(envFile[1], Len(sMsgOpen) + 1,
                                 Len(envFile[1]) - Len(sMsgClose))
              IN /\ SubSeq(envFile[1], 1, Len(sMsgOpen)) = sMsgOpen
                 /\ SubSeq(envFile[1], Len(envFile[1]) - Len(sMsgClose) + 1,
                           Len(envFile[1])) = sMsgClose
                 /\ L <= 4096 => text = aggregated_msg
                 /\ L > 4096 =>
                       /\ Len(text) = 4003
                       /\ \A i \in 1..4000 : text[i] = aggregated_msg[i]
                       /\ \A i \in 4001..4003 : text[i] = 46

PublishedClippedWitness ==
    /\ pc = "published" /\ envFile # <<>>
    /\ Len(aggregated_msg) = 4097
    /\ Len(envFile[1]) = 4003 + Len(sMsgOpen) + Len(sMsgClose)

\* every key of m1 is a key of m2, and its items in m1 begin its items in m2
GrownFrom(m1, m2) ==
    \A i \in 1..Len(m1) : \E j \in 1..Len(m2) :
        /\ m2[j].key = m1[i].key
        /\ Len(m1[i].val) <= Len(m2[j].val)
        /\ SubSeq(m2[j].val, 1, Len(m1[i].val)) = m1[i].val

\* C12: no step of a run removes a topic key from the cache or changes the
\* items already under a key, in memory and on disk; the cache file written
\* at the end of a run holds the whole in-memory mapping
CacheGrows ==
    [][ /\ (~Ended /\ exc' # "Interrupted") =>
              \/ dblp_cache' = dblp_cache
              \/ GrownFrom(dblp_cache.map, dblp_cache'.map)
        /\ \/ cacheFile' = cacheFile
           \/ GrownFrom(LoadCache(cacheFile).map, LoadCache(cacheFile').map)
        /\ (pc = "persist" /\ pc' = "done") => LoadCache(cacheFile') = dblp_cache' ]_vars

CacheGrowsWitness ==
    /\ pc = "done" /\ runs = 2
    /\ \E i \in 1..Len(dblp_cache.map) :
          /\ Len(dblp_cache.map[i].val) >= 2
          /\ \E j \in 1..Len(LoadCache(prevCache).map) :
                /\ LoadCache(prevCache).map[j].key = dblp_cache.map[i].key
                /\ LoadCache(prevCache).map[j].val # <<>>
                /\ Len(LoadCache(prevCache).map[j].val) < Len(dblp_cache.map[i].val)
    /\ LoadCache(cacheFile) = dblp_cache

\* C13: an item with an empty venue is filed under "Unknown Venue" and an item
\* with an empty year under "Unknown Year"; no document has an empty string
\* as a venue key or as a year key
VenueYearFallback ==
    \A n \in DOMAIN docFile :
        LET venues == docFile[n].data.venues IN
        /\ \A v \in 1..Len(venues) :
              /\ venues[v].key.text # Empty
              /\ \A y \in 1..Len(venues[v].years) : venues[v].years[y].key.text # Empty
        /\ \A it \in merged[n] :
              /\ it.venue = PyStr(Empty) =>
                    /\ \E i \in 1..Len(docFile[n].data.section) :
                          docFile[n].data.section[i].title.text = sUnknownVenue
                    /\ \E v \in 1..Len(venues) : venues[v].key.text = sUnknownVenue
              /\ it.year = PyStr(Empty) =>
                    \E v \in 1..Len(venues) : \E y \in 1..Len(venues[v].years) :
                        venues[v].years[y].key.text = sUnknownYear

\* C14 as stated: a call sends at most budget + 1 requests (11 with the
\* default budget), each after a sleep, and returns no data exactly when
\* every request failed
FetchNoDataIffAllFailed ==
    /\ attempts <= budget + 1 /\ attempts <= 11
    /\ delays >= attempts
    /\ pc = "fetched" => (dblp_data = NoneData <=> failures = attempts)

\* C14: every call of request_data ends; it sends at most budget + 1 requests
\* (11 with the default budget), each after a sleep of its own; an answered
\* request is the last one and its body is what the call returns; the call
\* returns no data when every request failed, and otherwise only when the
\* body of the answered request is null
FetchBounded ==
    /\ [](/\ attempts <= budget + 1 /\ attempts <= 11
          /\ delays = (IF pc = "request" THEN attempts + 1 ELSE attempts)
          /\ failures \in {attempts - 1, attempts}
          /\ pc # "fetched" => failures = attempts
          /\ pc = "fetched" =>
                /\ failures = attempts => dblp_data = NoneData /\ attempts = budget + 1
                /\ failures # attempts => dblp_data \in RunResponses)
    /\ <>(pc = "fetched")

FetchBoundedWitness ==
    /\ pc = "fetched"
    /\ budget = 10 /\ attempts = 11 /\ delays = 11
    /\ failures = 10 /\ dblp_data # NoneData

\* the section titles of a persisted document
SectionTitles(file) == [i \in 1..Len(file.data.section) |-> file.data.section[i].title]

\* C15: the section of a document that started empty lists every venue merged
\* into it once, in the order the venues were first merged; a merge leaves the
\* section it found as a prefix of the section it writes; every venue key of
\* the document has a section entry
SectionAppendOnly ==
    [][ \A n \in DOMAIN docFile :
          LET old == SectionTitles(docFile[n])
              new == SectionTitles(docFile'[n])
              venues == docFile'[n].data.venues
          IN /\ Len(old) <= Len(new) /\ SubSeq(new, 1, Len(old)) = old
             /\ \A i, j \in 1..Len(new) : i # j => new[i] # new[j]
             /\ new = [i \in 1..Len(seen'[n]) |-> YamlRepresent(seen'[n][i])]
             /\ \A v \in 1..Len(venues) : \E i \in 1..Len(new) : new[i] = venues[v].key ]_vars

SectionAppendOnlyWitness ==
    /\ pc = "merge"
    /\ Len(seen[1]) = 3
    /\ SectionTitles(docFile[1]) = <<YamlRepresent(PyStr(sICML)), YamlRepresent(PyStr(sAAAI)),
                                     YamlRepresent(PyStr(Empty))>>
    /\ Cardinality(merged[1]) > 3

\* the year-bucket of a persisted document under two keys as they are in the
\* file; a bucket without header, length and body when there is none
BucketOrNone(file, vkey, ykey) ==
    LET found == UNION { { file.data.venues[i].years[j] :
                             j \in { k \in 1..Len(file.data.venues[i].years) :
                                       file.data.venues[i].years[k].key = ykey } } :
                         i \in { k \in 1..Len(file.data.venues) :
                                   file.data.venues[k].key = vkey } }
    IN IF found = {} THEN [key |-> ykey, header |-> <<>>, length |-> <<>>, body |-> <<>>]
       ELSE CHOOSE b \in found : TRUE

\* the entry the claim describes for an item, as read back from the file
ClaimedEntry(it) ==
    [title |-> it.title, venue |-> it.venue,
     year |-> IF IsDigit(it.year.v) THEN PyInt(ToInt(it.year.v)) ELSE it.year,
     link |-> IF it.ee.v # Empty THEN it.ee ELSE it.url]

\* C16: a merge adds to a year-bucket one entry for each merged item whose
\* title the bucket did not have: title, venue, year (an integer when the
\* item's year is all digits, the string otherwise) and link (ee when it is
\* not empty, url otherwise); it leaves the header, the length and the other
\* entries of a bucket that was there as they were
EntryShape ==
    [][ \A n \in DOMAIN docFile :
          \A v \in 1..Len(docFile'[n].data.venues) :
            \A y \in 1..Len(docFile'[n].data.venues[v].years) :
              LET vkey == docFile'[n].data.venues[v].key
                  new == docFile'[n].data.venues[v].years[y]
                  old == BucketOrNone(docFile[n], vkey, new.key)
                  Titles(b) == { b.body[i].title : i \in 1..Len(b.body) }
                  Added == { i \in 1..Len(new.body) : new.body[i].title \notin Titles(old) }
              IN /\ old.body # <<>> => new.header = old.header /\ new.length = old.length
                 /\ \A i \in 1..Len(old.body) : \E j \in 1..Len(new.body) :
                       new.body[j] = old.body[i]
                 /\ Len(new.body) = Len(old.body) + Cardinality(Added)
                 /\ \A i \in Added :
                       /\ DOMAIN new.body[i] = {"title", "venue", "year", "link"}
                       /\ \E it \in merged'[n] :
                             /\ YamlRepresent(it.venue) = vkey
                             /\ YamlRepresent(it.year) = new.key
                             /\ MapRec(new.body[i], YamlConstruct) = ClaimedEntry(it)
                 /\ \A it \in merged'[n] :
                       (/\ YamlRepresent(it.venue) = vkey
                        /\ YamlRepresent(it.year) = new.key
                        /\ YamlRepresent(it.title) \notin Titles(old))
                       => Cardinality({ i \in Added :
                                          new.body[i].title = YamlRepresent(it.title) }) = 1 ]_vars

EntryShapeWitness ==
    /\ pc = "merge"
    /\ \E b \in BucketAt(docFile[1], PyStr(sAAAI), PyStr(s2024)) :
          /\ Len(b.body) = 2
          /\ YamlConstruct(b.body[1].year) = PyInt(2024)
          /\ YamlConstruct(b.body[1].link) = PyStr(sU1)
          /\ YamlConstruct(b.body[2].link) \in {PyStr(sE1), PyStr(sE2)}
    /\ \E b \in BucketAt(docFile[1], PyStr(sAAAI), PyStr(s999)) :
          YamlConstruct(b.body[1].link) = PyStr(Empty)
    /\ \E b \in BucketAt(docFile[1], PyStr(sICML), PyStr(sNd)) :
          YamlConstruct(b.body[1].year) = PyStr(sNd)

\* C17: while a topic whose fetch fails, or whose items are all in the cache,
\* is processed, the in-memory cache, the documents on disk, the message and
\* the had-updates flag stay as they are; fetching and filtering never change
\* the cache, which changes during a run only where new items are recorded
\* (the steps of a run that is not stopped from outside)
NoNewNoChange ==
    [][ LET Same == /\ dblp_cache' = dblp_cache /\ docFile' = docFile
                    /\ aggregated_msg' = aggregated_msg /\ total_flag' = total_flag
        IN exc' # "Interrupted" =>
           /\ (pc = "loop" /\ remote[topic_query] = NoneData) => Same
           /\ pc = "loop" => Same
           /\ (/\ pc = "filtered"
               /\ \A i \in 1..Len(items) : items[i] \in CachedUnder(dblp_cache, topic_query))
              => Same
           /\ (~Ended /\ dblp_cache' # dblp_cache)
              => (/\ pc = "filtered"
                  /\ \E i \in 1..Len(items) :
                        items[i] \notin CachedUnder(dblp_cache, topic_query)) ]_vars

NoNewNoChangeWitness ==
    /\ pc = "persist" /\ runs = 2
    /\ items # <<>> /\ new_items = <<>>
    /\ ~total_flag /\ aggregated_msg = <<>>
    /\ dblp_cache = LoadCache(cacheFile) /\ dblp_cache.map # <<>>
    /\ writes = {}

\* the document has an entry for the item: in the bucket of the item's venue
\* and year, by title
HasEntry(file, it) ==
    \E b \in BucketAt(file, it.venue, it.year) :
        \E i \in 1..Len(b.body) : b.body[i].title = YamlRepresent(it.title)

\* the first run of a behaviour has reached its end; it began without a cache
\* file and without documents, and every fetch gave data
FirstRunComplete ==
    /\ pc = "done" /\ runs = 1 /\ ~dirty
    /\ prevCache = AbsentCache
    /\ \A n \in DOMAIN prevDocs : prevDocs[n] = AbsentFile
    /\ \A p \in visited : remote[config_files[p[1]][p[2]]] # NoneData

\* C18: after such a run, the documents of two targets that list the same
\* topic both have an entry for every item fetched for the topic
SharedTopicInBoth ==
    FirstRunComplete =>
        \A c, d \in DOMAIN docFile : \A t \in Topics :
            (/\ c # d
             /\ \E i \in 1..Len(config_files[c]) : config_files[c][i] = t
             /\ \E i \in 1..Len(config_files[d]) : config_files[d][i] = t)
            => \A k \in 1..Len(get_dblp_items(remote[t]).items) :
                  /\ HasEntry(docFile[c], get_dblp_items(remote[t]).items[k])
                  /\ HasEntry(docFile[d], get_dblp_items(remote[t]).items[k])

\* C20: no topic's cache entry holds two equal items, in memory and on disk
NoDuplicateInCache ==
    /\ \A k \in 1..Len(dblp_cache.map) :
          \A i, j \in 1..Len(dblp_cache.map[k].val) :
              i # j => dblp_cache.map[k].val[i] # dblp_cache.map[k].val[j]
    /\ \A k \in 1..Len(LoadCache(cacheFile).map) :
          \A i, j \in 1..Len(LoadCache(cacheFile).map[k].val) :
              i # j => LoadCache(cacheFile).map[k].val[i] # LoadCache(cacheFile).map[k].val[j]

\* C19: a run that reaches its end after a run that was stopped between the
\* rewriting of a document and the saving of the cache, with the same fetch
\* results, leaves no document with two body entries of one title in a bucket
\* or two section entries of one venue, and leaves every fetched item in the
\* cache file under its topic
RecoversAfterInterrupt ==
    (pc = "done" /\ resumed) =>
        /\ \A n \in DOMAIN docFile :
              /\ \A b \in BucketsOf(docFile[n]) :
                    \A i, j \in 1..Len(b.body) : i # j => b.body[i].title # b.body[j].title
              /\ \A i, j \in 1..Len(docFile[n].data.section) :
                    i # j => docFile[n].data.section[i] # docFile[n].data.section[j]
              /\ \A it \in merged[n] : HasEntry(docFile[n], it)
        /\ \A c \in 1..Len(config_files) : \A k \in 1..Len(config_files[c]) :
              LET t == config_files[c][k] IN
              /\ <<c, k>> \in visited
              /\ remote[t] # NoneData =>
                    \A i \in 1..Len(get_dblp_items(remote[t]).items) :
                        get_dblp_items(remote[t]).items[i] \in CachedUnder(LoadCache(cacheFile), t)

RecoversAfterInterruptWitness ==
    /\ pc = "done" /\ resumed
    /\ prevCache = AbsentCache
    /\ \E n \in DOMAIN docFile :
          /\ prevDocs[n].exists /\ prevDocs[n].data.venues # <<>>
          /\ <<"doc", n>> \in writes
          /\ docFile[n] = prevDocs[n]
    /\ LoadCache(cacheFile).map # <<>>

====
